---------------------------- MODULE Spec2Model ----------------------------
(***************************************************************************)
(* Model of llrt's build-time bytecode packaging (build.rs) and of the     *)
(* runtime object cache (src/object_cache.rs).                             *)
(*                                                                         *)
(* Spec        the object cache driven by one caller: whole calls of       *)
(*             init / get / clear and drops of the handles get returned.   *)
(* SpecThreads the initialized cache used by several threads: get, the     *)
(*             drop of its handle and clear, one memory access at a time.  *)
(* SpecBuild   one run of build.rs main over a bundle directory.           *)
(***************************************************************************)
EXTENDS Integers, Sequences, FiniteSets, TLC

VARIABLES
    OBJECT_CACHE,   \* the static OnceCell<RwLock<Option<ObjectCache>>>
    ref_count,      \* engine reference count of every built-in value
    ctx_ref,        \* engine reference count of every JSContext
    handles,        \* handles returned by get that their callers still hold
    wild_free,      \* JS_FreeValue was called on a slot that holds no pointer
    inits,          \* number of init calls made so far
    rejected        \* history: per context, the init calls OnceCell::set rejected

cacheVars == <<OBJECT_CACHE, ref_count, ctx_ref, handles, wild_free, inits,
               rejected>>

VARIABLES
    lock,           \* the RwLock: the threads holding a read guard, the write guard
    pc,             \* where each thread is in get, in the drop of its handle or in clear
    tmp,            \* per thread, the reference count it loaded and has not stored yet
    hold,           \* per thread, the value of the handle get gave it
    rounds,         \* per thread, the get calls it has made
    taken,          \* clear: the ObjectCache that take() moved out of the cell
    cursor          \* clear: the next slot of the loop

threadVars == <<lock, pc, tmp, hold, rounds, taken, cursor>>

VARIABLES
    uncompressed,           \* cfg!(feature = "uncompressed")
    bundle,                 \* the entries WalkDir yields for BUNDLE_DIR, in order
    walked,                 \* main: the entries the loop has gone through
    files,                  \* the file system: the content of every file the build names
    filenames,              \* main: the Vec of bytecode file names
    ph_map,                 \* main: the entries given to phf_codegen::Map
    total_bytes,            \* main: the size reported at the end
    sdk_bytecode_file,      \* src/bytecode_cache.rs behind its BufWriter
    spawned,                \* the zstd processes run so far, with their arguments
    stage,                  \* where main is
    next_file,              \* compress_bytecode: the position of the loop
    uncompressed_file_size, \* compress_bytecode: the u32 local
    total_size              \* compress_bytecode: the sum it returns

buildVars == <<uncompressed, bundle, walked, files, filenames, ph_map,
               total_bytes, sdk_bytecode_file, spawned, stage, next_file,
               uncompressed_file_size, total_size>>

-----------------------------------------------------------------------------
(* Bounds *)

\* init calls in one run
MaxInits == 2
\* handles callers hold at the same time
MaxHandles == 2
\* get calls of one thread
MaxRounds == 2
\* entries of the bundle directory
MaxEntries == 8

-----------------------------------------------------------------------------
(* The engine: contexts and the built-in values init resolves *)

\* Engine contexts a caller can pass to init.
Contexts == {"ctxA", "ctxB", "ctxNoBuffer"}

\* Globals that are absent from a context.  Buffer is installed by the host,
\* not by the engine, so a context can lack it.
Missing(c) == IF c = "ctxNoBuffer" THEN {"Buffer"} ELSE {}

\* The lookups of init, in program order: the local each is bound to.
Lookups ==
    << "globals",
       "Object", "Object.prototype", "Object.getOwnPropertyDescriptor",
       "Date", "Date.prototype",
       "Map", "Map.prototype",
       "Set", "Set.prototype",
       "RegExp", "RegExp.prototype",
       "Error", "Error.prototype",
       "Array", "Array.from",
       "ArrayBuffer", "ArrayBuffer.isView",
       "Buffer" >>

Names == {Lookups[i] : i \in 1..Len(Lookups)}

\* An engine value is identified by its context and its name.
Values == Contexts \X Names

\* References the engine itself holds on a built-in (the property of the
\* global object or of the constructor that names it) and on a context (the
\* caller's own Ctx).
EngineRefs == 1

-----------------------------------------------------------------------------
(* Cache keys and the slot array *)

SlotCount == 256
Slots == 0..(SlotCount - 1)

ConstructorCacheKey == <<"Map", "Set", "Date", "Error", "RegExp", "Buffer">>
PrototypeCacheKey == <<"Object", "Date", "RegExp", "Set", "Map", "Error">>
FunctionCacheKey == <<"ArrayFrom", "ArrayBufferIsView", "GetOwnPropertyDescriptor">>

Variants(cat) ==
    CASE cat = "Prototype" -> PrototypeCacheKey
      [] cat = "Constructor" -> ConstructorCacheKey
      [] cat = "Function" -> FunctionCacheKey

Categories == {"Prototype", "Constructor", "Function"}

\* A key is <<category, variant>>.
Keys == UNION {{<<cat, Variants(cat)[i]>> : i \in 1..Len(Variants(cat))} : cat \in Categories}

\* `self as usize`: the position of the variant in its enum, from 0.
Discriminant(key) ==
    (CHOOSE i \in 1..Len(Variants(key[1])) : Variants(key[1])[i] = key[2]) - 1

ConstructorOffset == 64
FunctionOffset == 128

\* Mutant: the categories are packed 4 slots apart.
EnumIndexPacked(key) ==
    CASE key[1] = "Prototype" -> Discriminant(key)
      [] key[1] = "Constructor" -> Discriminant(key) + 4
      [] key[1] = "Function" -> Discriminant(key) + 8

\* EnumIndex::index
EnumIndex(key) ==
    CASE key[1] = "Prototype" -> Discriminant(key)
      [] key[1] = "Constructor" -> Discriminant(key) + ConstructorOffset
      [] key[1] = "Function" -> Discriminant(key) + FunctionOffset

\* A JSValue: its tag and the union u.  A slot init filled holds the pointer
\* of an engine value; the other slots hold JSValueUnion { int32: 0 }.
JS_TAG_OBJECT == -1
Pointer(v) == [tag |-> JS_TAG_OBJECT, u |-> v]
Int32Zero == <<"int32", "0">>
EmptySlot == [tag |-> JS_TAG_OBJECT, u |-> Int32Zero]
IsPointer(jsv) == jsv.u \in Values

NullCtx == "null"
EmptyArray == [i \in Slots |-> EmptySlot]

\* OnceCell not yet set.
CellUnset == [set |-> FALSE, some |-> FALSE, ctx |-> NullCtx, cache |-> EmptyArray]
\* OnceCell set, the RwLock holds Some(ObjectCache { ctx, cache }).
CellSome(c, values) == [set |-> TRUE, some |-> TRUE, ctx |-> c, cache |-> values]
\* OnceCell set, the RwLock holds None (clear took the cache out).
CellNone == [set |-> TRUE, some |-> FALSE, ctx |-> NullCtx, cache |-> EmptyArray]

\* The lifecycle state the cell encodes.
State ==
    IF ~OBJECT_CACHE.set THEN "Uninitialized"
    ELSE IF OBJECT_CACHE.some THEN "Initialized" ELSE "Cleared"

-----------------------------------------------------------------------------
(* Engine reference counting.  e = [val |-> value counts, ctx |-> context  *)
(* counts].                                                                *)

JS_DupValue(e, v) == [e EXCEPT !.val[v] = @ + 1]
JS_FreeValue(e, v) == [e EXCEPT !.val[v] = @ - 1]
JS_DupContext(e, c) == [e EXCEPT !.ctx[c] = @ + 1]
JS_FreeContext(e, c) == [e EXCEPT !.ctx[c] = @ - 1]

\* A wrapper (Object, Value, Function ...) owns one reference on its value
\* and, through the Ctx it carries, one on its context.
NewWrapper(e, v) == JS_DupContext(JS_DupValue(e, v), v[1])
DropWrapper(e, v) == JS_FreeContext(JS_FreeValue(e, v), v[1])


-----------------------------------------------------------------------------
(* init *)

\* init is modelled by the engine calls it makes, in program order; a call is
\* <<function, argument>>.
Call(fn, arg) == <<fn, arg>>

\* The net effect of a sequence of calls: every call adds or removes one
\* reference of its argument.
Net(calls) ==
    LET Of(fn) == {i \in DOMAIN calls : calls[i][1] = fn}
        Count(fn, x) == Cardinality({i \in Of(fn) : calls[i][2] = x})
    IN  [val |-> [v \in Values |-> Count("JS_DupValue", v) - Count("JS_FreeValue", v)],
         ctx |-> [c \in Contexts |->
                    Count("JS_DupContext", c) - Count("JS_FreeContext", c)]]

\* The engine after calls of net effect `net`.
Apply(e, net) ==
    [val |-> [v \in Values |-> e.val[v] + net.val[v]],
     ctx |-> [c \in Contexts |-> e.ctx[c] + net.ctx[c]]]

\* The first n lookups of init: each returns a wrapper of the value found.
Resolve(c, n) ==
    [i \in 1..(2 * n) |->
        IF i % 2 = 1 THEN Call("JS_DupValue", <<c, Lookups[(i + 1) \div 2]>>)
        ELSE Call("JS_DupContext", c)]

\* Mutant: the wrappers going out of scope are forgotten, not dropped.
DropLocalsForgotten(c, names) == <<>>

\* Locals of init going out of scope: each wrapper in `names` is dropped.
DropLocals(c, names) ==
    [i \in 1..(2 * Len(names)) |->
        IF i % 2 = 1 THEN Call("JS_FreeValue", <<c, names[(i + 1) \div 2]>>)
        ELSE Call("JS_FreeContext", c)]

\* Index of the first lookup that fails in context c, 0 when none fails.
FirstMissing(c) ==
    IF \E i \in 1..Len(Lookups) : Lookups[i] \in Missing(c)
    THEN CHOOSE i \in 1..Len(Lookups) :
            /\ Lookups[i] \in Missing(c)
            /\ \A j \in 1..(i - 1) : Lookups[j] \notin Missing(c)
    ELSE 0

\* The append_cache calls of init, in program order: the key and the local
\* moved into its slot.
Appends ==
    << <<<<"Constructor", "Map">>, "Map">>,
       <<<<"Constructor", "Set">>, "Set">>,
       <<<<"Constructor", "Error">>, "Error">>,
       <<<<"Constructor", "RegExp">>, "RegExp">>,
       <<<<"Constructor", "Date">>, "Date">>,
       <<<<"Constructor", "Buffer">>, "Buffer">>,
       <<<<"Function", "ArrayFrom">>, "Array.from">>,
       <<<<"Function", "GetOwnPropertyDescriptor">>, "Object.getOwnPropertyDescriptor">>,
       <<<<"Function", "ArrayBufferIsView">>, "ArrayBuffer.isView">>,
       <<<<"Prototype", "Map">>, "Map.prototype">>,
       <<<<"Prototype", "Set">>, "Set.prototype">>,
       <<<<"Prototype", "Error">>, "Error.prototype">>,
       <<<<"Prototype", "RegExp">>, "RegExp.prototype">>,
       <<<<"Prototype", "Date">>, "Date.prototype">>,
       <<<<"Prototype", "Object">>, "Object.prototype">> >>

\* The locals init never moves into the cache; they are dropped on return.
Temporaries == SelectSeq(Lookups, LAMBDA n : \A i \in 1..Len(Appends) : Appends[i][2] # n)

\* append_cache: release the wrapper's context reference, forget the wrapper
\* (its value reference is not released) and store the raw value in the slot.
append_cache(key, v) ==
    [index |-> EnumIndex(key), value |-> Pointer(v),
     calls |-> <<Call("JS_FreeContext", v[1])>>]

\* The append_cache calls of init on the array `values`: a slot holds what the
\* last call that addressed it stored.
AppendAll(values, c) ==
    LET call(i) == append_cache(Appends[i][1], <<c, Appends[i][2]>>)
        Writers(s) == {i \in 1..Len(Appends) : call(i).index = s}
        written == {call(i).index : i \in 1..Len(Appends)}
        Last(s) == CHOOSE i \in Writers(s) : \A j \in Writers(s) : j <= i
    IN  [cache |-> [s \in Slots |->
                      IF s \in written THEN call(Last(s)).value ELSE values[s]],
         calls |-> [i \in 1..Len(Appends) |-> call(i).calls[1]]]

\* Mutant: the cell can be set again once clear has emptied it.
OnceCellSetAfterTake(cell, value) ==
    IF cell.set /\ cell.some THEN [ok |-> FALSE, cell |-> cell]
    ELSE [ok |-> TRUE, cell |-> value]

\* Mutant: the value replaces the stored one before the error is reported.
OnceCellSetReplace(cell, value) ==
    [ok |-> ~cell.set, cell |-> value]

\* OnceCell::set: stores the value only in a cell that is not set yet.
OnceCellSet(cell, value) ==
    IF cell.set THEN [ok |-> FALSE, cell |-> cell]
    ELSE [ok |-> TRUE, cell |-> value]

\* The engine calls of init(ctx) up to its return.
InitCallsOf(c) ==
    LET m == FirstMissing(c) IN
    IF m # 0
    THEN \* `?` returns the lookup error; the locals bound so far are dropped
         Resolve(c, m - 1) \o DropLocals(c, SubSeq(Lookups, 1, m - 1))
    ELSE Resolve(c, Len(Lookups))
            \o AppendAll(EmptyArray, c).calls
            \o <<Call("JS_DupContext", c)>>
            \o DropLocals(c, Temporaries)

\* Per context: the array init builds and the net effect of its engine calls.
InitValues == [c \in Contexts |-> AppendAll(EmptyArray, c).cache]
InitNet == [c \in Contexts |-> Net(InitCallsOf(c))]

\* init(ctx) on cell and engine e: the result, the cell and the engine after.
init(cell, e, c) ==
    IF FirstMissing(c) # 0
    THEN [res |-> "LookupFailed", cell |-> cell, e |-> Apply(e, InitNet[c])]
    ELSE LET set == OnceCellSet(cell, CellSome(c, InitValues[c]))
             \* a rejected ObjectCache is dropped; it has no Drop impl, so
             \* nothing it holds is released
         IN  [res |-> IF set.ok THEN "Ok" ELSE "AlreadyInited",
              cell |-> set.cell, e |-> Apply(e, InitNet[c])]

-----------------------------------------------------------------------------
(* get *)

NoValue == <<"none", "none">>

\* Mutant: the slot's value is wrapped without JS_DupValue.
get_value_borrowed(cache, e, key) ==
    [val |-> cache.cache[EnumIndex(key)].u, e |-> JS_DupContext(e, cache.ctx)]

\* ObjectCache::get_value: a new wrapper on the value stored in key's slot.
get_value(cache, e, key) ==
    LET ctx == JS_DupContext(e, cache.ctx)          \* Ctx::from_raw
        cached_value == cache.cache[EnumIndex(key)]
    IN  [val |-> cached_value.u, e |-> JS_DupValue(ctx, cached_value.u)]

\* Mutant: the slots are read without looking at the Option.
get_unchecked(cell, e, key) ==
    IF ~cell.set
    THEN [res |-> "Panic", val |-> NoValue, e |-> e]
    ELSE [res |-> "Handle", val |-> cell.cache[EnumIndex(key)].u, e |-> e]

\* ObjectCache::get() followed by get_function / get_prototype /
\* get_constructor on the guarded cache.
get(cell, e, key) ==
    IF ~cell.set
    THEN [res |-> "Panic", val |-> NoValue, e |-> e]     \* OBJECT_CACHE.get().unwrap()
    ELSE IF ~cell.some
    THEN [res |-> "None", val |-> NoValue, e |-> e]      \* the guard holds None
    ELSE LET r == get_value(cell, e, key)
         IN  [res |-> "Handle", val |-> r.val, e |-> r.e]

-----------------------------------------------------------------------------
(* clear *)

\* value.u.ptr.is_null().  A slot init did not fill was written through the
\* int32 field only, so the rest of the pointer is uninitialized: garbage
\* says whether those bytes read as non-zero.
PtrIsNull(jsv, garbage) == ~IsPointer(jsv) /\ ~garbage

\* The loop of clear: JS_FreeValue once for every slot whose pointer is not
\* null, so a value loses one reference per such slot that points to it.
FreeSlots(e, cache, garbage) ==
    LET freed == {i \in Slots : IsPointer(cache[i]) /\ ~PtrIsNull(cache[i], garbage)}
    IN  [e EXCEPT !.val = [v \in Values |->
            e.val[v] - Cardinality({i \in freed : cache[i].u = v})]]

\* JS_FreeValue is called on a value that is no pointer of the engine.
WildFree(cache, garbage) ==
    \E i \in Slots : ~PtrIsNull(cache[i], garbage) /\ ~IsPointer(cache[i])

\* Mutant: clear creates the cell when it is not set (get_or_init).
clear_or_init(cell, e, garbage) ==
    IF ~cell.some
    THEN [res |-> "Ok", cell |-> CellNone, e |-> e, wild |-> FALSE]
    ELSE [res |-> "Ok", cell |-> CellNone,
          e |-> JS_FreeContext(FreeSlots(e, cell.cache, garbage), cell.ctx),
          wild |-> WildFree(cell.cache, garbage)]

\* Mutant: clear releases what the cell holds and leaves it in the cell.
clear_without_take(cell, e, garbage) ==
    IF ~cell.set
    THEN [res |-> "Panic", cell |-> cell, e |-> e, wild |-> FALSE]
    ELSE IF ~cell.some
    THEN [res |-> "Ok", cell |-> cell, e |-> e, wild |-> FALSE]
    ELSE [res |-> "Ok", cell |-> cell,
          e |-> JS_FreeContext(FreeSlots(e, cell.cache, garbage), cell.ctx),
          wild |-> WildFree(cell.cache, garbage)]

clear(cell, e, garbage) ==
    IF ~cell.set
    THEN [res |-> "Panic", cell |-> cell, e |-> e, wild |-> FALSE]
    ELSE IF ~cell.some
    THEN [res |-> "Ok", cell |-> cell, e |-> e, wild |-> FALSE]   \* take() gave None
    ELSE [res |-> "Ok", cell |-> CellNone,
          e |-> JS_FreeContext(FreeSlots(e, cell.cache, garbage), cell.ctx),
          wild |-> WildFree(cell.cache, garbage)]

-----------------------------------------------------------------------------
(* The cache driven by one caller *)

Engine == [val |-> ref_count, ctx |-> ctx_ref]

HandleCount(h) ==
    LET RECURSIVE Sum(_)
        Sum(S) == IF S = {} THEN 0
                  ELSE LET v == CHOOSE x \in S : TRUE IN h[v] + Sum(S \ {v})
    IN  Sum({v \in Values : h[v] > 0})


\* The threads of SpecThreads.
Threads == {"t1", "t2"}
\* The thread that calls clear.
Clearer == "clearer"
\* The keys the threads ask for.
ThreadKeys == {<<"Constructor", "Map">>}

NoLock == [readers |-> {}, writer |-> FALSE]

ThreadsIdle ==
    /\ lock = NoLock
    /\ pc = [t \in Threads \cup {Clearer} |-> "idle"]
    /\ tmp = [t \in Threads \cup {Clearer} |-> 0]
    /\ hold = [t \in Threads |-> NoValue]
    /\ rounds = [t \in Threads |-> 0]
    /\ taken = CellNone
    /\ cursor = 0

\* build.rs is not running.
BuildIdle ==
    /\ uncompressed = FALSE
    /\ bundle = <<>>
    /\ walked = 0
    /\ files = <<>>
    /\ filenames = <<>>
    /\ ph_map = <<>>
    /\ total_bytes = <<>>
    /\ sdk_bytecode_file = <<>>
    /\ spawned = <<>>
    /\ stage = "idle"
    /\ next_file = 0
    /\ uncompressed_file_size = <<>>
    /\ total_size = <<>>

CacheInit ==
    /\ OBJECT_CACHE = CellUnset
    /\ ref_count = [v \in Values |->
                       IF v[2] \in Missing(v[1]) THEN 0 ELSE EngineRefs]
    /\ ctx_ref = [c \in Contexts |-> EngineRefs]
    /\ handles = [v \in Values |-> 0]
    /\ wild_free = FALSE
    /\ inits = 0
    /\ rejected = [c \in Contexts |-> 0]

CallInit(c) ==
    /\ inits < MaxInits
    /\ LET r == init(OBJECT_CACHE, Engine, c) IN
        /\ OBJECT_CACHE' = r.cell
        /\ ref_count' = r.e.val
        /\ ctx_ref' = r.e.ctx
        /\ rejected' = IF r.res = "AlreadyInited"
                       THEN [rejected EXCEPT ![c] = @ + 1] ELSE rejected
    /\ inits' = inits + 1
    /\ UNCHANGED <<handles, wild_free>>
    /\ UNCHANGED threadVars
    /\ UNCHANGED buildVars

CallGet(key) ==
    LET r == get(OBJECT_CACHE, Engine, key) IN
    /\ ref_count' = r.e.val
    /\ ctx_ref' = r.e.ctx
    /\ handles' = IF r.res = "Handle" THEN [handles EXCEPT ![r.val] = @ + 1] ELSE handles
    /\ UNCHANGED <<OBJECT_CACHE, wild_free, inits, rejected>>
    /\ UNCHANGED threadVars
    /\ UNCHANGED buildVars

CallClear ==
    \E garbage \in BOOLEAN :
        LET r == clear(OBJECT_CACHE, Engine, garbage) IN
        /\ OBJECT_CACHE' = r.cell
        /\ ref_count' = r.e.val
        /\ ctx_ref' = r.e.ctx
        /\ wild_free' = (wild_free \/ r.wild)
        /\ UNCHANGED <<handles, inits, rejected>>
        /\ UNCHANGED threadVars
        /\ UNCHANGED buildVars
    /\ UNCHANGED buildVars

\* A caller drops a handle it got from get.
Release(v) ==
    /\ handles[v] > 0
    /\ LET e == DropWrapper(Engine, v) IN
        /\ ref_count' = e.val
        /\ ctx_ref' = e.ctx
    /\ handles' = [handles EXCEPT ![v] = @ - 1]
    /\ UNCHANGED <<OBJECT_CACHE, wild_free, inits, rejected>>
    /\ UNCHANGED threadVars
    /\ UNCHANGED buildVars

InitCalls == \E c \in Contexts : CallInit(c)
GetCalls ==
    /\ State = "Initialized" => HandleCount(handles) < MaxHandles
    /\ \E key \in Keys : CallGet(key)
Releases == \E v \in {x \in Values : handles[x] > 0} : Release(v)

vars == <<cacheVars, threadVars, buildVars>>

Next ==
    \/ InitCalls
    \/ GetCalls
    \/ CallClear
    \/ Releases

\* Nothing has been called yet.
Init ==
    /\ CacheInit
    /\ ThreadsIdle
    /\ BuildIdle

Spec == Init /\ [][Next]_vars

-----------------------------------------------------------------------------
(* The initialized cache used by several threads.                          *)
(*                                                                         *)
(* ObjectCache is declared Send and Sync by `unsafe impl`, and get holds   *)
(* only the read guard, which any number of threads hold at once.          *)
(* JS_DupValue / JS_FreeValue / JS_DupContext / JS_FreeContext are plain   *)
(* `ref_count += 1` / `-= 1` on the engine's object header: a load and a   *)
(* store with no synchronisation.  Each is therefore two steps here, and a *)
(* store writes the value computed from what the thread loaded.            *)

\* The state after init(ctxA) succeeded on a fresh cell.
Initialized == init(CellUnset,
                    [val |-> [v \in Values |->
                                IF v[2] \in Missing(v[1]) THEN 0 ELSE EngineRefs],
                     ctx |-> [c \in Contexts |-> EngineRefs]],
                    "ctxA")

ThreadsInit ==
    /\ OBJECT_CACHE = Initialized.cell
    /\ ref_count = Initialized.e.val
    /\ ctx_ref = Initialized.e.ctx
    /\ handles = [v \in Values |-> 0]
    /\ wild_free = FALSE
    /\ inits = 1
    /\ rejected = [c \in Contexts |-> 0]
    /\ ThreadsIdle
    /\ BuildIdle

Goto(t, label) == pc' = [pc EXCEPT ![t] = label]
Load(t, n) == tmp' = [tmp EXCEPT ![t] = n]
\* The store of a count computed from the loaded one ends the use of tmp.
Stored(t) == tmp' = [tmp EXCEPT ![t] = 0]

\* ObjectCache::get(): the read guard, and through it the Option.  With None
\* in the cell there is no ObjectCache to call get_value on.
ReadLock(t) ==
    /\ pc[t] = "idle"
    /\ rounds[t] < MaxRounds
    /\ OBJECT_CACHE.set
    /\ ~lock.writer
    /\ lock' = [lock EXCEPT !.readers = @ \cup {t}]
    /\ rounds' = [rounds EXCEPT ![t] = @ + 1]
    /\ Goto(t, IF OBJECT_CACHE.some THEN "from_raw" ELSE "unlock")
    /\ UNCHANGED <<cacheVars, tmp, hold, taken, cursor>>
    /\ UNCHANGED buildVars

\* get_value, Ctx::from_raw: JS_DupContext, the load.
FromRawLoad(t) ==
    /\ pc[t] = "from_raw"
    /\ Load(t, ctx_ref[OBJECT_CACHE.ctx])
    /\ Goto(t, "from_raw_store")
    /\ UNCHANGED <<cacheVars, lock, hold, rounds, taken, cursor>>
    /\ UNCHANGED buildVars

\* get_value, Ctx::from_raw: JS_DupContext, the store.
FromRawStore(t) ==
    /\ pc[t] = "from_raw_store"
    /\ ctx_ref' = [ctx_ref EXCEPT ![OBJECT_CACHE.ctx] = tmp[t] + 1]
    /\ Stored(t)
    /\ Goto(t, "dup_value")
    /\ UNCHANGED <<OBJECT_CACHE, ref_count, handles, wild_free, inits, rejected,
                   lock, hold, rounds, taken, cursor>>
    /\ UNCHANGED buildVars

\* get_value: the slot is copied and JS_DupValue loads the count of its value.
DupValueLoad(t, key) ==
    /\ pc[t] = "dup_value"
    /\ LET cached_value == OBJECT_CACHE.cache[EnumIndex(key)] IN
        /\ hold' = [hold EXCEPT ![t] = cached_value.u]
        /\ Load(t, ref_count[cached_value.u])
    /\ Goto(t, "dup_value_store")
    /\ UNCHANGED <<cacheVars, lock, rounds, taken, cursor>>
    /\ UNCHANGED buildVars

\* get_value: JS_DupValue stores the count; Value::from_raw wraps the value.
DupValueStore(t) ==
    /\ pc[t] = "dup_value_store"
    /\ ref_count' = [ref_count EXCEPT ![hold[t]] = tmp[t] + 1]
    /\ Stored(t)
    /\ Goto(t, "unlock")
    /\ UNCHANGED <<OBJECT_CACHE, ctx_ref, handles, wild_free, inits, rejected,
                   lock, hold, rounds, taken, cursor>>
    /\ UNCHANGED buildVars

\* The read guard is dropped; the thread now owns the handle, if it got one.
ReadUnlock(t) ==
    /\ pc[t] = "unlock"
    /\ lock' = [lock EXCEPT !.readers = @ \ {t}]
    /\ Goto(t, IF hold[t] = NoValue THEN "idle" ELSE "holding")
    /\ UNCHANGED <<cacheVars, tmp, hold, rounds, taken, cursor>>
    /\ UNCHANGED buildVars

\* The handle is dropped: JS_FreeValue, the load.
DropValueLoad(t) ==
    /\ pc[t] = "holding"
    /\ Load(t, ref_count[hold[t]])
    /\ Goto(t, "drop_value_store")
    /\ UNCHANGED <<cacheVars, lock, hold, rounds, taken, cursor>>
    /\ UNCHANGED buildVars

\* The handle is dropped: JS_FreeValue, the store.
DropValueStore(t) ==
    /\ pc[t] = "drop_value_store"
    /\ ref_count' = [ref_count EXCEPT ![hold[t]] = tmp[t] - 1]
    /\ Stored(t)
    /\ Goto(t, "drop_ctx")
    /\ UNCHANGED <<OBJECT_CACHE, ctx_ref, handles, wild_free, inits, rejected,
                   lock, hold, rounds, taken, cursor>>
    /\ UNCHANGED buildVars

\* The handle's Ctx is dropped: JS_FreeContext, the load.
DropCtxLoad(t) ==
    /\ pc[t] = "drop_ctx"
    /\ Load(t, ctx_ref[hold[t][1]])
    /\ Goto(t, "drop_ctx_store")
    /\ UNCHANGED <<cacheVars, lock, hold, rounds, taken, cursor>>
    /\ UNCHANGED buildVars

\* The handle's Ctx is dropped: JS_FreeContext, the store.
DropCtxStore(t) ==
    /\ pc[t] = "drop_ctx_store"
    /\ ctx_ref' = [ctx_ref EXCEPT ![hold[t][1]] = tmp[t] - 1]
    /\ hold' = [hold EXCEPT ![t] = NoValue]
    /\ Stored(t)
    /\ Goto(t, "idle")
    /\ UNCHANGED <<OBJECT_CACHE, ref_count, handles, wild_free, inits, rejected,
                   lock, rounds, taken, cursor>>
    /\ UNCHANGED buildVars

\* clear: the write guard, granted when no guard is held.
WriteLock ==
    /\ pc[Clearer] = "idle"
    /\ OBJECT_CACHE.set
    /\ lock = NoLock
    /\ lock' = [lock EXCEPT !.writer = TRUE]
    /\ Goto(Clearer, "take")
    /\ UNCHANGED <<cacheVars, tmp, hold, rounds, taken, cursor>>
    /\ UNCHANGED buildVars

\* clear: take() moves the ObjectCache out of the cell and leaves None.
Take ==
    /\ pc[Clearer] = "take"
    /\ \E garbage \in BOOLEAN :
          wild_free' = (wild_free \/ (OBJECT_CACHE.some /\ WildFree(OBJECT_CACHE.cache, garbage)))
    /\ taken' = OBJECT_CACHE
    /\ OBJECT_CACHE' = CellNone
    /\ cursor' = 0
    /\ Goto(Clearer, IF OBJECT_CACHE.some THEN "loop" ELSE "write_unlock")
    /\ UNCHANGED <<ref_count, ctx_ref, handles, inits, rejected, lock, tmp, hold, rounds>>
    /\ UNCHANGED buildVars

\* The slots at or after the cursor that hold a pointer.
Pending == {i \in Slots : i >= cursor /\ IsPointer(taken.cache[i])}
NextPointer == CHOOSE i \in Pending : \A j \in Pending : i <= j

\* clear, the loop: JS_FreeValue on the next slot that holds a pointer, the load.
FreeValueLoad ==
    /\ pc[Clearer] = "loop"
    /\ Pending # {}
    /\ cursor' = NextPointer
    /\ Load(Clearer, ref_count[taken.cache[NextPointer].u])
    /\ Goto(Clearer, "loop_store")
    /\ UNCHANGED <<cacheVars, lock, hold, rounds, taken>>
    /\ UNCHANGED buildVars

\* clear, the loop: JS_FreeValue, the store.
FreeValueStore ==
    /\ pc[Clearer] = "loop_store"
    /\ ref_count' = [ref_count EXCEPT ![taken.cache[cursor].u] = tmp[Clearer] - 1]
    /\ cursor' = cursor + 1
    /\ Stored(Clearer)
    /\ Goto(Clearer, "loop")
    /\ UNCHANGED <<OBJECT_CACHE, ctx_ref, handles, wild_free, inits, rejected,
                   lock, hold, rounds, taken>>
    /\ UNCHANGED buildVars

\* clear, after the loop: JS_FreeContext, the load.
FreeContextLoad ==
    /\ pc[Clearer] = "loop"
    /\ Pending = {}
    /\ Load(Clearer, ctx_ref[taken.ctx])
    /\ Goto(Clearer, "free_ctx_store")
    /\ UNCHANGED <<cacheVars, lock, hold, rounds, taken, cursor>>
    /\ UNCHANGED buildVars

\* clear, after the loop: JS_FreeContext, the store.
FreeContextStore ==
    /\ pc[Clearer] = "free_ctx_store"
    /\ ctx_ref' = [ctx_ref EXCEPT ![taken.ctx] = tmp[Clearer] - 1]
    /\ Stored(Clearer)
    /\ Goto(Clearer, "write_unlock")
    /\ UNCHANGED <<OBJECT_CACHE, ref_count, handles, wild_free, inits, rejected,
                   lock, hold, rounds, taken, cursor>>
    /\ UNCHANGED buildVars

\* clear returns: the write guard is dropped.
WriteUnlock ==
    /\ pc[Clearer] = "write_unlock"
    /\ lock' = [lock EXCEPT !.writer = FALSE]
    /\ Goto(Clearer, "done")
    /\ UNCHANGED <<cacheVars, tmp, hold, rounds, taken, cursor>>
    /\ UNCHANGED buildVars



ThreadGet ==
    \E t \in Threads :
        \/ ReadLock(t)
        \/ FromRawLoad(t)
        \/ FromRawStore(t)
        \/ \E key \in ThreadKeys : DupValueLoad(t, key)
        \/ DupValueStore(t)
        \/ ReadUnlock(t)

ThreadDrop ==
    \E t \in Threads :
        \/ DropValueLoad(t)
        \/ DropValueStore(t)
        \/ DropCtxLoad(t)
        \/ DropCtxStore(t)

ThreadClear ==
    \/ WriteLock
    \/ Take
    \/ FreeValueLoad
    \/ FreeValueStore
    \/ FreeContextLoad
    \/ FreeContextStore
    \/ WriteUnlock

ThreadsNext ==
    \/ ThreadGet
    \/ ThreadDrop
    \/ ThreadClear

SpecThreads == ThreadsInit /\ [][ThreadsNext]_vars

-----------------------------------------------------------------------------
(* build.rs: sizes                                                         *)
(*                                                                         *)
(* A byte count is a usize / u64: four 16-bit limbs, least significant     *)
(* first, so that lengths of 4 GiB and more are values of the model.       *)

LimbBase == 65536

Size(n) == <<n, 0, 0, 0>>

\* usize addition (total_bytes += ..., total_size += ...), wrapping at 2^64.
AddSize(a, b) ==
    LET s1 == a[1] + b[1]
        s2 == a[2] + b[2] + (s1 \div LimbBase)
        s3 == a[3] + b[3] + (s2 \div LimbBase)
        s4 == a[4] + b[4] + (s3 \div LimbBase)
    IN  <<s1 % LimbBase, s2 % LimbBase, s3 % LimbBase, s4 % LimbBase>>

\* `len() as u32`: the low 32 bits.
AsU32(len) == <<len[1], len[2]>>

\* u32::to_le_bytes
ToLeBytes(u) == <<u[1] % 256, u[1] \div 256, u[2] % 256, u[2] \div 256>>

\* The number four little-endian bytes stand for, as a byte count.
FromLeBytes(b) == <<b[1] + 256 * b[2], b[3] + 256 * b[4], 0, 0>>

\* file_size >= 1024
KiB == 1024
AtLeastKiB(len) == len[4] > 0 \/ len[3] > 0 \/ len[2] > 0 \/ len[1] >= KiB

\* The lengths write_object returns in the model: 512 B, 2 KiB, 4 GiB + 512 B.
Lengths == {<<512, 0, 0, 0>>, <<2048, 0, 0, 0>>, <<512, 0, 1, 0>>}

-----------------------------------------------------------------------------
(* build.rs: paths and file contents *)

\* The entries of the bundle directory: a path relative to BUNDLE_DIR, as
\* what the code looks at: how it starts, its stem (the bytes of the name)
\* and its extension.  The stems of the first entries are ASCII letters, those
\* of the last entries are bytes that are not UTF-8.
DirEntry(i) ==
    [prefix |-> IF i = 3 THEN "llrt-chunk-" ELSE IF i = 4 THEN "__tests__" ELSE "",
     stem |-> IF i >= 7 THEN <<128 + i>> ELSE <<96 + i>>,
     ext |-> IF i = 2 THEN "md" ELSE "js"]

DirEntries == [i \in 1..MaxEntries |-> DirEntry(i)]

\* path_str.starts_with("__tests__") || path.extension() != "js"
Skipped(path) == path.prefix = "__tests__" \/ path.ext # "js"

\* to_string_lossy(): every byte that is not UTF-8 becomes U+FFFD.
REPLACEMENT_CHARACTER == 65533
ToStringLossy(path) ==
    [path EXCEPT !.stem = [k \in DOMAIN @ |->
                              IF @[k] >= 128 THEN REPLACEMENT_CHARACTER ELSE @[k]]]

\* module_name: the path without its extension, but as it is for llrt-chunk-.
ModuleName(path) ==
    IF path.prefix # "llrt-chunk-"
    THEN ToStringLossy([path EXCEPT !.ext = ""])
    ELSE ToStringLossy(path)

\* filename: dir_ent.path().with_extension(BYTECODE_EXT)
Filename(path) == [dir |-> "bundle", prefix |-> path.prefix,
                   stem |-> ToStringLossy(path).stem, ext |-> "BYTECODE_EXT"]

\* tmp_filename: a fresh name in the temporary directory.
TmpFilename(i) == [dir |-> "tmp", prefix |-> "", stem |-> <<i>>, ext |-> ""]

FileNames == {Filename(DirEntries[i]) : i \in 1..MaxEntries}
                 \cup {TmpFilename(i) : i \in 1..MaxEntries}

\* A file's content is a sequence of parts; a file that does not exist has
\* the content Absent.
Absent == <<[part |-> "absent", val |-> <<>>, len |-> Size(0)]>>

BYTECODE_UNCOMPRESSED == 0
BYTECODE_COMPRESSED == 1

\* The bytes write_object returned for a module.
Blob(name, len) == [part |-> "bytecode", val |-> <<name>>, len |-> len]
\* BYTECODE_VERSION.as_bytes()
VersionTag == [part |-> "version", val |-> <<"BYTECODE_VERSION">>, len |-> Size(4)]
\* &[BYTECODE_UNCOMPRESSED] or &[BYTECODE_COMPRESSED]
Flag(f) == [part |-> "flag", val |-> <<f>>, len |-> Size(1)]
\* Mutant: the size field holds the length as u64.
OriginalSizeWide(u) == [part |-> "original_size", val |-> ToLeBytes(u), len |-> Size(8)]
\* &uncompressed_file_size.to_le_bytes()
OriginalSize(u) == [part |-> "original_size", val |-> ToLeBytes(u), len |-> Size(4)]
\* What zstd writes for an input: a frame that decompresses to the input.
FrameLen == 256
Frame(content) == [part |-> "zstd", val |-> content, len |-> Size(FrameLen)]

\* metadata().len()
FileLen(content) ==
    LET RECURSIVE Sum(_)
        Sum(i) == IF i = 0 THEN Size(0) ELSE AddSize(Sum(i - 1), content[i].len)
    IN  Sum(Len(content))

\* The file starts with the version tag and a flag: a container.
IsContainer(content) ==
    /\ Len(content) >= 2
    /\ content[1] = VersionTag
    /\ content[2].part = "flag"

IsCompressedContainer(content) ==
    /\ IsContainer(content)
    /\ content[2] = Flag(BYTECODE_COMPRESSED)

-----------------------------------------------------------------------------
(* build.rs: main *)

\* main up to the loop: the features are fixed, the bundle directory is what
\* it is, and File::create has made an empty src/bytecode_cache.rs.
BuildInit ==
    /\ uncompressed \in BOOLEAN
    /\ \E n \in 0..MaxEntries : bundle = SubSeq(DirEntries, 1, n)
    /\ walked = 0
    /\ files = [f \in FileNames |-> Absent]
    /\ filenames = <<>>
    /\ ph_map = <<>>
    /\ total_bytes = Size(0)
    /\ sdk_bytecode_file = [buffer |-> <<>>, disk |-> <<>>]
    /\ spawned = <<>>
    /\ stage = "walk"
    /\ next_file = 0
    /\ uncompressed_file_size = AsU32(Size(0))
    /\ total_size = Size(0)

\* main returns: its locals are dropped, and the drop of the BufWriter writes
\* what it still buffers.
Return(result) ==
    /\ stage' = result
    /\ sdk_bytecode_file' = [buffer |-> <<>>,
                             disk |-> sdk_bytecode_file.disk \o sdk_bytecode_file.buffer]

\* The loop over the directory: an entry that is not compiled.
Skip ==
    /\ stage = "walk"
    /\ walked < Len(bundle)
    /\ Skipped(bundle[walked + 1])
    /\ walked' = walked + 1
    /\ UNCHANGED <<uncompressed, bundle, files, filenames, ph_map, total_bytes,
                   sdk_bytecode_file, spawned, stage, next_file,
                   uncompressed_file_size, total_size>>
    /\ UNCHANGED <<cacheVars, threadVars>>

\* The loop over the directory: a module is compiled to len bytes, which are
\* written to its bytecode file, raw or in an uncompressed container.
Compile(len) ==
    /\ stage = "walk"
    /\ walked < Len(bundle)
    /\ ~Skipped(bundle[walked + 1])
    /\ LET path == bundle[walked + 1]
           module_name == ModuleName(path)
           filename == Filename(path)
           bytes == <<Blob(module_name, len)>>
       IN  /\ filenames' = Append(filenames, filename)
           /\ total_bytes' = AddSize(total_bytes, len)
           /\ files' = [files EXCEPT ![filename] =
                          IF uncompressed
                          THEN <<VersionTag, Flag(BYTECODE_UNCOMPRESSED)>> \o bytes
                          ELSE bytes]
           /\ ph_map' = Append(ph_map, [key |-> module_name, value |-> filename])
    /\ walked' = walked + 1
    /\ UNCHANGED <<uncompressed, bundle, sdk_bytecode_file, spawned, stage,
                   next_file, uncompressed_file_size, total_size>>
    /\ UNCHANGED <<cacheVars, threadVars>>

\* The loop over the directory: the engine rejects a module, and `?` returns.
CompileFails ==
    /\ stage = "walk"
    /\ walked < Len(bundle)
    /\ ~Skipped(bundle[walked + 1])
    /\ filenames' = Append(filenames, Filename(bundle[walked + 1]))
    /\ Return("failed")
    /\ UNCHANGED <<uncompressed, bundle, walked, files, ph_map, total_bytes,
                   spawned, next_file, uncompressed_file_size, total_size>>
    /\ UNCHANGED <<cacheVars, threadVars>>

\* Mutant: build() accepts any list of keys.
DuplicateKeysAccepted(map) == FALSE

\* ph_map.build() panics when two entries have the same key.
DuplicateKeys(map) == \E i, j \in DOMAIN map : i # j /\ map[i].key = map[j].key

\* write!(&mut sdk_bytecode_file, ..., ph_map.build()): the registry text goes
\* to the BufWriter, which passes it on at once when it exceeds its capacity.
WriteRegistry ==
    /\ stage = "walk"
    /\ walked = Len(bundle)
    /\ IF DuplicateKeys(ph_map)
       THEN Return("failed")
       ELSE /\ \E through \in BOOLEAN :
                  sdk_bytecode_file' =
                      IF through
                      THEN [sdk_bytecode_file EXCEPT !.disk = Append(@, ph_map)]
                      ELSE [sdk_bytecode_file EXCEPT !.buffer = Append(@, ph_map)]
            /\ stage' = "dictionary"
    /\ UNCHANGED <<uncompressed, bundle, walked, files, filenames, ph_map,
                   total_bytes, spawned, next_file, uncompressed_file_size,
                   total_size>>
    /\ UNCHANGED <<cacheVars, threadVars>>

SmallCorpus == 5

\* generate_compression_dictionary: the arguments that name files.
TrainingArgs(source_files) ==
    LET file_count == Len(source_files)
        Large(file_path) == AtLeastKiB(FileLen(files[file_path]))
        dictionary_filenames == IF file_count < SmallCorpus
                                THEN SelectSeq(source_files, Large)
                                ELSE source_files
    IN  dictionary_filenames \o source_files

\* generate_compression_dictionary, called by main with `uncompressed` and by
\* compress_bytecode without: zstd --train runs and exits with success or not.
Train(ok) ==
    /\ stage = "dictionary"
    /\ spawned' = Append(spawned, [cmd |-> "train",
                                   block |-> Len(filenames) < SmallCorpus,
                                   args |-> TrainingArgs(filenames)])
    /\ IF ~ok THEN
            /\ Return("failed")
            /\ UNCHANGED <<next_file, total_size>>
       ELSE IF uncompressed THEN
            /\ Return("done")
            /\ UNCHANGED <<next_file, total_size>>
       ELSE /\ stage' = "compress"
            /\ next_file' = 1
            /\ total_size' = Size(0)
            /\ UNCHANGED sdk_bytecode_file
    /\ UNCHANGED <<uncompressed, bundle, walked, files, filenames, ph_map,
                   total_bytes, uncompressed_file_size>>
    /\ UNCHANGED <<cacheVars, threadVars>>

\* compress_bytecode, the loop: the file is copied to a temporary file, its
\* length is taken as u32, and zstd compresses the copy over the file.  When
\* zstd fails the file is as it was or gone, and the error is returned.
Zstd(ok) ==
    /\ stage = "compress"
    /\ next_file <= Len(filenames)
    /\ LET filename == filenames[next_file]
           tmp_filename == TmpFilename(next_file)
           copied == [files EXCEPT ![tmp_filename] = files[filename]]
           frame == <<Frame(copied[tmp_filename])>>
       IN  /\ uncompressed_file_size' = AsU32(FileLen(files[filename]))
           /\ spawned' = Append(spawned, [cmd |-> "compress",
                                          block |-> FALSE,
                                          args |-> <<tmp_filename, filename>>])
           /\ IF ok THEN
                   /\ files' = [copied EXCEPT ![filename] = frame]
                   /\ stage' = "container"
                   /\ UNCHANGED sdk_bytecode_file
              ELSE /\ \E left \in {copied[filename], Absent} :
                         files' = [copied EXCEPT ![filename] = left]
                   /\ Return("failed")
    /\ UNCHANGED <<uncompressed, bundle, walked, filenames, ph_map, total_bytes,
                   next_file, total_size>>
    /\ UNCHANGED <<cacheVars, threadVars>>

\* compress_bytecode, the loop: the compressed bytes are read back and written
\* as a container with the size field.
WriteContainer ==
    /\ stage = "container"
    /\ LET filename == filenames[next_file]
           bytes == files[filename]
           compressed == <<VersionTag, Flag(BYTECODE_COMPRESSED),
                           OriginalSize(uncompressed_file_size)>> \o bytes
       IN  /\ files' = [files EXCEPT ![filename] = compressed]
           /\ total_size' = AddSize(total_size, FileLen(compressed))
    /\ next_file' = next_file + 1
    /\ stage' = "compress"
    /\ UNCHANGED <<uncompressed, bundle, walked, filenames, ph_map, total_bytes,
                   sdk_bytecode_file, spawned, uncompressed_file_size>>
    /\ UNCHANGED <<cacheVars, threadVars>>

\* compress_bytecode returns Ok(total_size), and main returns Ok(()).
Finish ==
    /\ stage = "compress"
    /\ next_file > Len(filenames)
    /\ total_bytes' = total_size
    /\ Return("done")
    /\ UNCHANGED <<uncompressed, bundle, walked, files, filenames, ph_map,
                   spawned, next_file, uncompressed_file_size, total_size>>
    /\ UNCHANGED <<cacheVars, threadVars>>

Compiles == \E len \in Lengths : Compile(len)
Trains == \E ok \in BOOLEAN : Train(ok)
Compresses == \E ok \in BOOLEAN : Zstd(ok)

BuildNext ==
    \/ Skip
    \/ Compiles
    \/ CompileFails
    \/ WriteRegistry
    \/ Trains
    \/ Compresses
    \/ WriteContainer
    \/ Finish

\* The build runs in a process of its own: the cache is not in use.
BuildStart ==
    /\ CacheInit
    /\ ThreadsIdle
    /\ BuildInit

SpecBuild == BuildStart /\ [][BuildNext]_vars

-----------------------------------------------------------------------------
(* Properties of the object cache *)

\* The contexts in which every lookup of init succeeds.
Complete == {c \in Contexts : FirstMissing(c) = 0}

\* Some init call was rejected by OnceCell::set.
SomeRejected == \E c \in Contexts : rejected[c] > 0

\* The step is a call of init.
InitStep == inits' = inits + 1

\* C1: the lifecycle is Uninitialized -> Initialized -> Cleared: only an init
\* call leaves Uninitialized, and only to Initialized; Initialized is left
\* only for Cleared; nothing leaves Cleared.  init succeeds exactly in
\* Uninitialized (given its lookups succeed) and otherwise leaves the cell as
\* it is; clear in Initialized gives Cleared.
C1_Lifecycle ==
    /\ [](/\ \A c \in Contexts :
               LET r == init(OBJECT_CACHE, Engine, c) IN
               /\ r.res = "Ok" <=> (State = "Uninitialized" /\ c \in Complete)
               /\ r.res # "Ok" => r.cell = OBJECT_CACHE
          /\ State = "Initialized" =>
               \A garbage \in BOOLEAN :
                   clear(OBJECT_CACHE, Engine, garbage).cell = CellNone)
    /\ [][ /\ State = "Uninitialized" =>
                 \/ State' = "Uninitialized"
                 \/ State' = "Initialized" /\ InitStep
           /\ State = "Initialized" => State' \in {"Initialized", "Cleared"}
           /\ State = "Cleared" => State' = "Cleared"
         ]_vars

\* An init call was made on a cache that had been cleared before.
C1_Witness ==
    /\ State = "Cleared"
    /\ inits >= 2

\* C2: an init call made while the cache is Initialized fails, with
\* "already inited" when its lookups succeed, and leaves the cell and every
\* slot as the first init stored them: for every key, get returns after the
\* call the value it returned before it.
C2_DoubleInit ==
    [][ (InitStep /\ State = "Initialized") =>
            /\ OBJECT_CACHE' = OBJECT_CACHE
            /\ \A c \in Complete :
                  init(OBJECT_CACHE, Engine, c).res = "AlreadyInited"
            /\ \A key \in Keys :
                  LET before == get(OBJECT_CACHE, Engine, key)
                      after == get(OBJECT_CACHE', Engine', key)
                  IN  /\ after.res = "Handle"
                      /\ after.val = before.val
                      /\ after.val = <<OBJECT_CACHE.ctx, after.val[2]>>
      ]_vars

\* A second init was rejected and a handle was obtained afterwards.
C2_Witness ==
    /\ State = "Initialized"
    /\ SomeRejected
    /\ \E v \in Values : handles[v] > 0

\* C3 as claimed: an init call that fails with "already inited" changes no
\* reference count of a value or of a context.
C3_FailedInitChangesNothing ==
    [][ (InitStep /\ rejected' # rejected) =>
            /\ ref_count' = ref_count
            /\ ctx_ref' = ctx_ref
      ]_vars

\* The number of slots of the cell that hold the pointer of v.
Pins(v) ==
    IF State = "Initialized"
    THEN Cardinality({key \in Keys : OBJECT_CACHE.cache[EnumIndex(key)].u = v})
    ELSE 0

\* The names init moves into slots.
Moved == {Appends[i][2] : i \in 1..Len(Appends)}

\* References left behind by the init calls OnceCell::set rejected.
LeakedPins(v) == IF v[2] \in Moved THEN rejected[v[1]] ELSE 0

HandlesOn(c) ==
    LET RECURSIVE Sum(_)
        Sum(S) == IF S = {} THEN 0
                  ELSE LET n == CHOOSE x \in S : TRUE IN handles[<<c, n>>] + Sum(S \ {n})
    IN  Sum({n \in Names : handles[<<c, n>>] > 0})

\* C4: in Initialized, get(key) returns a handle to the value in key's slot
\* and raises that value's count by one and no other value's; a get step
\* leaves the cell (slots and context pointer) unchanged; dropping the handle
\* undoes the get; and every value's count is the engine's references plus
\* its pins plus the handles held on it (plus what rejected inits left), so
\* with all handles released the counts are back at their pinned level.
C4_GetDuplicates ==
    /\ [](State = "Initialized" =>
            /\ \A key \in Keys :
                  LET r == get(OBJECT_CACHE, Engine, key)
                      slot == OBJECT_CACHE.cache[EnumIndex(key)]
                  IN  /\ r.res = "Handle"
                      /\ r.val = slot.u
                      /\ r.e.val = [ref_count EXCEPT ![slot.u] = @ + 1]
                      /\ DropWrapper(r.e, r.val) = Engine
            /\ \A v \in Values :
                  ref_count[v] = (IF v[2] \in Missing(v[1]) THEN 0 ELSE EngineRefs)
                                   + Pins(v) + handles[v] + LeakedPins(v)
            /\ Pins(<<OBJECT_CACHE.ctx, "Map">>) = 1)
    /\ [][ (State = "Initialized" /\ State' = "Initialized") =>
                OBJECT_CACHE' = OBJECT_CACHE ]_vars

\* Two handles are held on values of an initialized cache.
C4_Witness ==
    /\ State = "Initialized"
    /\ HandleCount(handles) >= 2

\* C5: in Cleared, get returns no handle for any key and touches no count.
C5_NoHandleAfterClear ==
    State = "Cleared" =>
        \A key \in Keys :
            LET r == get(OBJECT_CACHE, Engine, key)
            IN  /\ r.res = "None"
                /\ r.val = NoValue
                /\ r.e = Engine

\* The cache was cleared while a caller still held a handle.
C5_Witness ==
    /\ State = "Cleared"
    /\ \E v \in Values : handles[v] > 0

\* C6 as claimed: after init and clear, a fresh init succeeds.
C6_ReinitSucceeds ==
    State = "Cleared" =>
        \A c \in Complete : init(OBJECT_CACHE, Engine, c).res = "Ok"

\* C6 amended: after init and clear, a further init fails (with "already
\* inited" when its lookups succeed), the cache stays Cleared, and a get on any
\* key after it returns no handle.
C6_ReinitFails ==
    State = "Cleared" =>
        \A c \in Contexts :
            LET r == init(OBJECT_CACHE, Engine, c) IN
            /\ r.res = (IF c \in Complete THEN "AlreadyInited" ELSE "LookupFailed")
            /\ r.cell = CellNone
            /\ \A key \in Keys : get(r.cell, r.e, key).res = "None"

\* An init call was rejected on a cleared cache.
C6_Witness ==
    /\ State = "Cleared"
    /\ inits >= 2
    /\ SomeRejected

\* C9: in Uninitialized, get and clear panic: get returns no handle, neither
\* changes the cell or a count, and init then still succeeds.
C9_BeforeInit ==
    State = "Uninitialized" =>
        /\ \A key \in Keys :
              LET r == get(OBJECT_CACHE, Engine, key)
              IN  r.res = "Panic" /\ r.val = NoValue /\ r.e = Engine
        /\ \A garbage \in BOOLEAN :
              LET r == clear(OBJECT_CACHE, Engine, garbage)
              IN  r.res = "Panic" /\ r.cell = OBJECT_CACHE /\ r.e = Engine /\ ~r.wild
        /\ \A c \in Complete : init(OBJECT_CACHE, Engine, c).res = "Ok"

\* The cache is still Uninitialized after an init call whose lookup failed.
C9_Witness ==
    /\ State = "Uninitialized"
    /\ inits >= 1
    /\ get(OBJECT_CACHE, Engine, <<"Constructor", "Map">>).res = "Panic"

-----------------------------------------------------------------------------
(* Properties of the cache used by several threads *)

\* No thread is inside get, inside the drop of a handle, or inside clear.
AtRest ==
    /\ lock = NoLock
    /\ \A t \in Threads : pc[t] \in {"idle", "holding"}
    /\ pc[Clearer] \in {"idle", "done"}

\* The threads that own a handle on v.
Holders(v) == {t \in Threads : pc[t] = "holding" /\ hold[t] = v}

\* The count of v as init left it: the engine's references and the pins.
PinnedLevel(v) == Initialized.e.val[v]

\* C7 as claimed: with the cache Initialized, threads calling get on the same
\* key in any interleaving each receive their own handle: at rest the count of
\* every value is its pinned level plus the number of handles held on it
\* (back at the pinned level when all are released), and the slots are as
\* init stored them.
C7_ConcurrentReads ==
    (State = "Initialized" /\ AtRest) =>
        /\ \A v \in Values :
              ref_count[v] = PinnedLevel(v) + Cardinality(Holders(v))
        /\ OBJECT_CACHE = Initialized.cell

\* C8 as claimed: with get and clear on different threads, the value of a
\* handle returned by get is still alive (count at least 1) after clear has
\* released the slots, for as long as the owner holds the handle.
C8_HandleOutlivesClear ==
    \A t \in Threads :
        (pc[Clearer] = "done" /\ pc[t] = "holding") => ref_count[hold[t]] >= 1

-----------------------------------------------------------------------------
(* Properties of the build *)

\* C10 as claimed: in every compressed container the build writes, the four
\* little-endian bytes of original_size are the exact byte length of what was
\* compressed, the module's uncompressed bytecode, whatever that length is.
C10_OriginalSizeExact ==
    \A f \in FileNames :
        IsCompressedContainer(files[f]) =>
            FromLeBytes(files[f][3].val) = FileLen(files[f][4].val)

\* The build has ended, with Ok or with an error.
Ended == stage \in {"done", "failed"}

\* The registry text is in src/bytecode_cache.rs.
Emitted == sdk_bytecode_file.disk # <<>>

\* The artifact files the emitted registry names.
RegistryFiles ==
    LET disk == sdk_bytecode_file.disk
    IN  UNION {{disk[k][i].value : i \in DOMAIN disk[k]} : k \in DOMAIN disk}

\* C11 as claimed: when a build has ended, the artifact files the emitted
\* registry names are never some compressed containers together with some
\* files that are not compressed containers.
C11_AllOrNothing ==
    (Ended /\ Emitted) =>
        ~(\E f, g \in RegistryFiles :
              /\ IsCompressedContainer(files[f])
              /\ ~IsCompressedContainer(files[g]))

\* The step runs generate_compression_dictionary.
TrainStep == stage = "dictionary" /\ Len(spawned') = Len(spawned) + 1

\* C12 as claimed: with fewer than 5 modules, a bytecode file below 1 KiB is
\* not among the files named in the arguments of the dictionary trainer.
C12_SmallFilesNotTrained ==
    [][ (TrainStep /\ Len(filenames) < SmallCorpus) =>
            \A i \in DOMAIN filenames :
                ~AtLeastKiB(FileLen(files[filenames[i]])) =>
                    \A j \in DOMAIN spawned'[Len(spawned')].args :
                        spawned'[Len(spawned')].args[j] # filenames[i]
      ]_vars

\* Two of the compiled source files derived the same module name.
NameCollision ==
    \E i, j \in 1..walked :
        /\ i # j
        /\ ~Skipped(bundle[i]) /\ ~Skipped(bundle[j])
        /\ ModuleName(bundle[i]) = ModuleName(bundle[j])

\* C13: when two distinct source files derive the same module name the build
\* fails at the registry: it never goes on to the dictionary or to
\* compression and no registry text is written; and every registry that is
\* written has one entry per compiled source file, with pairwise distinct keys.
C13_CollisionFails ==
    /\ NameCollision => (stage \in {"walk", "failed"} /\ ~Emitted
                             /\ sdk_bytecode_file.buffer = <<>>)
    /\ \A k \in DOMAIN sdk_bytecode_file.disk :
          LET map == sdk_bytecode_file.disk[k] IN
          /\ Len(map) = Cardinality({i \in 1..walked : ~Skipped(bundle[i])})
          /\ \A i, j \in DOMAIN map : i # j => map[i].key # map[j].key

\* The build failed at the registry with two files of the same module name.
C13_Witness ==
    /\ NameCollision
    /\ walked = Len(bundle)
    /\ stage = "failed"
    /\ spawned = <<>>

\* The layout of a container: version tag (4 bytes), flag (1 byte, 0 or 1),
\* the 4 bytes of original_size exactly when the flag is 1, then the payload;
\* so the file is 5 or 9 bytes longer than its payload.
WellFormed(content) ==
    /\ Len(content) >= 3
    /\ content[1].part = "version" /\ content[1].len = Size(4)
    /\ content[2].part = "flag" /\ content[2].len = Size(1)
    /\ content[2].val \in {<<BYTECODE_UNCOMPRESSED>>, <<BYTECODE_COMPRESSED>>}
    /\ IF content[2].val = <<BYTECODE_COMPRESSED>>
       THEN /\ Len(content) = 4
            /\ content[3].part = "original_size" /\ content[3].len = Size(4)
            /\ content[4].part = "zstd"
            /\ FileLen(content) = AddSize(content[4].len, Size(9))
       ELSE /\ Len(content) = 3
            /\ content[3].part = "bytecode"
            /\ FileLen(content) = AddSize(content[3].len, Size(5))

\* The bytecode files the build has written a container to: with the
\* `uncompressed` feature every file of the loop over the directory, without
\* it the files compress_bytecode is done with.
ContainersWritten ==
    IF uncompressed
    THEN {filenames[i] : i \in {j \in DOMAIN filenames : files[filenames[j]] # Absent}}
    ELSE {filenames[i] : i \in {j \in DOMAIN filenames : j < next_file}}

C17_UncompressedSkipsPipeline ==
    uncompressed =>
        /\ spawned = <<>>
        /\ \A f \in FileNames :
              IsContainer(files[f]) =>
                  /\ files[f][2] = Flag(BYTECODE_UNCOMPRESSED)
                  /\ \A k \in DOMAIN files[f] : files[f][k].part # "original_size"

\* compress_bytecode has produced the final container of every module.
PipelineDone ==
    uncompressed \/ \A i \in DOMAIN filenames : IsCompressedContainer(files[filenames[i]])

\* C18 as claimed: the registry reaches its file only when every module is
\* compiled and the compression pipeline has produced every final container,
\* and once it is there no artifact file it names is written again.
C18_RegistryLast ==
    [][ /\ (~Emitted /\ Emitted') => (walked = Len(bundle) /\ PipelineDone)
        /\ Emitted => \A f \in RegistryFiles : files'[f] = files[f]
      ]_vars

-----------------------------------------------------------------------------
(* Properties of the object cache: reference counts and slots *)

\* The references the engine itself holds on v.
EngineLevel(v) == IF v[2] \in Missing(v[1]) THEN 0 ELSE EngineRefs

NoHandles == \A v \in Values : handles[v] = 0

NoneRejected == \A c \in Contexts : rejected[c] = 0

\* C15 as claimed: init pins each of the 15 built-ins once and takes one
\* reference on the context; clear releases one reference per filled slot and
\* one on the context, and no JS_FreeValue happens for a slot init did not
\* fill; so after init and clear, with all handles released, every count is
\* what it was before init.
C15_RefCountsBalanced ==
    /\ (State = "Initialized" /\ NoHandles /\ NoneRejected) =>
          /\ \A v \in Values :
                ref_count[v] = EngineLevel(v)
                                 + (IF v[1] = OBJECT_CACHE.ctx /\ v[2] \in Moved THEN 1 ELSE 0)
          /\ \A c \in Contexts :
                ctx_ref[c] = EngineRefs + (IF c = OBJECT_CACHE.ctx THEN 1 ELSE 0)
    /\ (State = "Cleared" /\ NoHandles /\ NoneRejected) =>
          /\ \A v \in Values : ref_count[v] = EngineLevel(v)
          /\ \A c \in Contexts : ctx_ref[c] = EngineRefs
    /\ wild_free = FALSE

\* The built-in a key stands for.
BuiltinOf(key) ==
    CASE key[1] = "Constructor" -> key[2]
      [] key = <<"Prototype", "Object">> -> "Object.prototype"
      [] key = <<"Prototype", "Date">> -> "Date.prototype"
      [] key = <<"Prototype", "RegExp">> -> "RegExp.prototype"
      [] key = <<"Prototype", "Set">> -> "Set.prototype"
      [] key = <<"Prototype", "Map">> -> "Map.prototype"
      [] key = <<"Prototype", "Error">> -> "Error.prototype"
      [] key = <<"Function", "ArrayFrom">> -> "Array.from"
      [] key = <<"Function", "ArrayBufferIsView">> -> "ArrayBuffer.isView"
      [] key = <<"Function", "GetOwnPropertyDescriptor">> -> "Object.getOwnPropertyDescriptor"

\* C16: Prototype keys map to the slots from 0, Constructor keys to the slots
\* from 64, Function keys to the slots from 128; distinct keys map to
\* distinct slots, all below 256; and in Initialized the slot of each of the
\* 15 keys holds the built-in of that key, and no other slot holds a pointer.
C16_SlotMapping ==
    /\ Cardinality(Keys) = 15
    /\ \A key \in Keys :
          /\ EnumIndex(key) \in Slots
          /\ EnumIndex(key) = Discriminant(key)
                + (CASE key[1] = "Prototype" -> 0
                     [] key[1] = "Constructor" -> 64
                     [] key[1] = "Function" -> 128)
    /\ \A k1, k2 \in Keys : k1 # k2 => EnumIndex(k1) # EnumIndex(k2)
    /\ State = "Initialized" =>
          /\ \A key \in Keys :
                OBJECT_CACHE.cache[EnumIndex(key)] =
                    Pointer(<<OBJECT_CACHE.ctx, BuiltinOf(key)>>)
          /\ \A i \in Slots :
                IsPointer(OBJECT_CACHE.cache[i]) => \E key \in Keys : EnumIndex(key) = i

\* The cache is Initialized and a caller holds a handle.
C16_Witness ==
    /\ State = "Initialized"
    /\ ~NoHandles
    /\ NoneRejected

\* C19: an init call in a context where a lookup fails returns the lookup
\* error, leaves the cell as it is (Uninitialized stays Uninitialized) and
\* every count of a value or a context as before the call, and an init in a
\* context with all built-ins then still succeeds on an Uninitialized cache.
C19_LookupFailure ==
    \A c \in Contexts \ Complete :
        LET r == init(OBJECT_CACHE, Engine, c) IN
        /\ r.res = "LookupFailed"
        /\ r.cell = OBJECT_CACHE
        /\ r.e = Engine
        /\ State = "Uninitialized" =>
              \A c2 \in Complete :
                  LET r2 == init(r.cell, r.e, c2) IN
                  r2.res = "Ok" /\ r2.cell = CellSome(c2, InitValues[c2])

\* Every init call so far failed at a lookup, and the counts are the
\* engine's own.
C19_Witness ==
    /\ State = "Uninitialized"
    /\ inits = MaxInits
    /\ \A v \in Values : ref_count[v] = EngineLevel(v)
    /\ \A c \in Contexts : ctx_ref[c] = EngineRefs

\* C20: clear on a Cleared cache changes nothing: no count of a value or of a
\* context, and no slot is left to release; so whatever the calls, no count
\* ever falls below the engine's own references plus the handles held.
C20_ClearOnCleared ==
    /\ State = "Cleared" =>
          \A garbage \in BOOLEAN :
              clear(OBJECT_CACHE, Engine, garbage) =
                  [res |-> "Ok", cell |-> OBJECT_CACHE, e |-> Engine, wild |-> FALSE]
    /\ \A v \in Values : ref_count[v] >= EngineLevel(v) + handles[v]
    /\ \A c \in Contexts : ctx_ref[c] >= EngineRefs + HandlesOn(c)

\* The cache was initialized once and cleared, and no handle is held.
C20_Witness ==
    /\ State = "Cleared"
    /\ inits = 1
    /\ NoHandles

=============================================================================
